---- MODULE Spec2Model ----
(***************************************************************************)
(* DoubleBuffer<T> of src/lib.rs: two RefCell<T> cells and the flag         *)
(* `switched`, with the views (Ref / RefMut) a caller holds on the cells.   *)
(*                                                                          *)
(* A RefCell is modelled by its value and its borrow record (how many       *)
(* shared and how many exclusive borrows are outstanding).  A view is      *)
(* bound to the physical cell it was taken from.  The caller may drop a    *)
(* view (the borrow is released), or leak it (std::mem::forget: the view   *)
(* is gone but the cell stays borrowed).  switch takes &mut self, so it is *)
(* callable only while no view borrowed from &self is alive.               *)
(***************************************************************************)
EXTENDS Integers, FiniteSets, Sequences, TLC

\* T is modelled as the integers 0..MaxVal
MaxVal == 2
\* at most MaxShared shared borrows are taken on one cell
MaxShared == 2

Values == 0 .. MaxVal
CellNames == {"first", "second"}

VARIABLES
    self,      \* the DoubleBuffer: [first, second : RefCell, switched : BOOLEAN]
    views,     \* live views held by the caller, per physical cell
    written,   \* a write went through a next() view since the last switch
    op,        \* the last operation
    outcome,   \* its outcome: "ok" or "BorrowConflict" (the RefCell panic)
    seen,      \* the value read through the view current() returned, or -1
    args,      \* <<current, next>> given to new(), while new is the last operation
    pre,       \* self, views, written, op, outcome, args before the last operation
    pre2       \* the same, before the operation before the last one

vars == <<self, views, written, op, outcome, seen, args, pre, pre2>>

----------------------------------------------------------------------------
\* RefCell<T>

\* RefCell::new(v)
RefCell(v) == [value |-> v, readers |-> 0, writers |-> 0]

\* borrow that never checks the cell
CanBorrow_Always(cell) == TRUE

\* borrow on a cell that admits one view at a time
CanBorrow_Exclusive(cell) == cell.writers = 0 /\ cell.readers = 0

\* RefCell::borrow succeeds unless the cell is mutably borrowed
CanBorrow(cell) == cell.writers = 0

\* borrow_mut that overlooks the shared borrows
CanBorrowMut_IgnoreReaders(cell) == cell.writers = 0

\* borrow_mut that overlooks the exclusive borrow
CanBorrowMut_IgnoreWriters(cell) == cell.readers = 0

\* RefCell::borrow_mut succeeds only when the cell is not borrowed at all
CanBorrowMut(cell) == cell.writers = 0 /\ cell.readers = 0

Borrowed(cell) == [cell EXCEPT !.readers = @ + 1]

BorrowedMut(cell) == [cell EXCEPT !.writers = @ + 1]

\* Drop of a Ref
Released(cell) == [cell EXCEPT !.readers = @ - 1]

\* a release that leaves the cell exclusively borrowed
ReleasedMut_Kept(cell) == cell

\* Drop of a RefMut
ReleasedMut(cell) == [cell EXCEPT !.writers = @ - 1]

----------------------------------------------------------------------------
\* DoubleBuffer<T>

\* a constructor that fills the cells the other way round
new_swapped(current, next) ==
    [first |-> RefCell(next), second |-> RefCell(current), switched |-> FALSE]

\* DoubleBuffer::new(current, next)
new(current, next) ==
    [first |-> RefCell(current), second |-> RefCell(next), switched |-> FALSE]

\* current() that ignores the flag
CurrentCell_Fixed(switched) == "first"

\* the match of current(): the cell that plays the current role
CurrentCell(switched) == IF switched THEN "second" ELSE "first"

\* next() with the arms of current()
NextCell_Same(switched) == IF switched THEN "second" ELSE "first"

\* next() that ignores the flag
NextCell_First(switched) == "first"

\* the match of next(): the cell that plays the next role
NextCell(switched) == IF switched THEN "first" ELSE "second"

\* a switch that leaves the flag as it is
Flipped_Stuck(switched) == switched

\* a switch that sets the flag instead of toggling it
Flipped_Set(switched) == TRUE

\* self.switched = !self.switched
Flipped(switched) == ~switched

Cell(buf, name) == IF name = "first" THEN buf.first ELSE buf.second

WithCell(buf, name, cell) ==
    IF name = "first" THEN [buf EXCEPT !.first = cell]
                      ELSE [buf EXCEPT !.second = cell]

NoViews == [c \in CellNames |-> [shared |-> 0, excl |-> 0]]

Live(c) == views[c].shared + views[c].excl

Snapshot ==
    [self |-> self, views |-> views, written |-> written, op |-> op,
     outcome |-> outcome, args |-> args]

\* every operation records what it ran on
Record(name) ==
    /\ op' = name
    /\ args' = <<>>
    /\ pre' = Snapshot
    /\ pre2' = pre

Init ==
    /\ \E c \in Values, n \in Values :
          /\ self = new(c, n)
          /\ args = <<c, n>>
    /\ views = NoViews
    /\ written = FALSE
    /\ op = "new"
    /\ outcome = "ok"
    /\ seen = -1
    /\ pre = Snapshot
    /\ pre2 = pre

\* current() on a buffer that keeps both slots behind one borrow check
current_whole ==
    LET c == CurrentCell(self.switched) IN
    /\ Cell(self, c).readers < MaxShared
    /\ Record("current")
    /\ IF CanBorrow(self.first) /\ CanBorrow(self.second)
       THEN /\ self' = WithCell(self, c, Borrowed(Cell(self, c)))
            /\ views' = [views EXCEPT ![c].shared = @ + 1]
            /\ outcome' = "ok"
            /\ seen' = Cell(self, c).value
       ELSE /\ outcome' = "BorrowConflict"
            /\ seen' = -1
            /\ UNCHANGED <<self, views>>
    /\ UNCHANGED written

\* buf.current(): a Ref into the current cell, or the panic of RefCell::borrow
current ==
    LET c == CurrentCell(self.switched) IN
    /\ Cell(self, c).readers < MaxShared
    /\ Record("current")
    /\ IF CanBorrow(Cell(self, c))
       THEN /\ self' = WithCell(self, c, Borrowed(Cell(self, c)))
            /\ views' = [views EXCEPT ![c].shared = @ + 1]
            /\ outcome' = "ok"
            /\ seen' = Cell(self, c).value
       ELSE /\ outcome' = "BorrowConflict"
            /\ seen' = -1
            /\ UNCHANGED <<self, views>>
    /\ UNCHANGED written

\* next() that marks the cell borrowed before it checks it
next_eager ==
    LET c == NextCell(self.switched) IN
    /\ Record("next")
    /\ seen' = -1
    /\ self' = WithCell(self, c, BorrowedMut(Cell(self, c)))
    /\ IF CanBorrowMut(Cell(self, c))
       THEN /\ views' = [views EXCEPT ![c].excl = @ + 1]
            /\ outcome' = "ok"
       ELSE /\ outcome' = "BorrowConflict"
            /\ UNCHANGED views
    /\ UNCHANGED written

\* buf.next(): a RefMut into the next cell, or the panic of RefCell::borrow_mut
next ==
    LET c == NextCell(self.switched) IN
    /\ Record("next")
    /\ seen' = -1
    /\ IF CanBorrowMut(Cell(self, c))
       THEN /\ self' = WithCell(self, c, BorrowedMut(Cell(self, c)))
            /\ views' = [views EXCEPT ![c].excl = @ + 1]
            /\ outcome' = "ok"
       ELSE /\ outcome' = "BorrowConflict"
            /\ UNCHANGED <<self, views>>
    /\ UNCHANGED written

\* a switch taking &self: callable while views are alive
switch_shared ==
    /\ Record("switch")
    /\ self' = [self EXCEPT !.switched = Flipped(self.switched)]
    /\ written' = FALSE
    /\ outcome' = "ok"
    /\ seen' = -1
    /\ UNCHANGED views

\* a switch that swaps the contents through borrow_mut of both cells
switch_swapping ==
    /\ \A c \in CellNames : Live(c) = 0
    /\ Record("switch")
    /\ seen' = -1
    /\ IF CanBorrowMut(self.first) /\ CanBorrowMut(self.second)
       THEN /\ self' = [self EXCEPT !.first.value = self.second.value,
                                    !.second.value = self.first.value]
            /\ written' = FALSE
            /\ outcome' = "ok"
       ELSE /\ outcome' = "BorrowConflict"
            /\ UNCHANGED <<self, written>>
    /\ UNCHANGED views

\* a switch that copies the next value over the current one
switch_copying ==
    /\ \A c \in CellNames : Live(c) = 0
    /\ Record("switch")
    /\ self' = [WithCell(self, CurrentCell(self.switched),
                   [Cell(self, CurrentCell(self.switched)) EXCEPT
                       !.value = Cell(self, NextCell(self.switched)).value])
                EXCEPT !.switched = Flipped(self.switched)]
    /\ written' = FALSE
    /\ outcome' = "ok"
    /\ seen' = -1
    /\ UNCHANGED views

\* a switch that clears the cell that becomes next
switch_resetting ==
    /\ \A c \in CellNames : Live(c) = 0
    /\ Record("switch")
    /\ self' = [WithCell(self, CurrentCell(self.switched),
                   [Cell(self, CurrentCell(self.switched)) EXCEPT !.value = 0])
                EXCEPT !.switched = Flipped(self.switched)]
    /\ written' = FALSE
    /\ outcome' = "ok"
    /\ seen' = -1
    /\ UNCHANGED views

\* buf.switch(): &mut self, so no view borrowed from the buffer is alive
switch ==
    /\ \A c \in CellNames : Live(c) = 0
    /\ Record("switch")
    /\ self' = [self EXCEPT !.switched = Flipped(self.switched)]
    /\ written' = FALSE
    /\ outcome' = "ok"
    /\ seen' = -1
    /\ UNCHANGED views

\* *view = v through a live RefMut (the view of the cell it was taken from)
write ==
    \E c \in CellNames, v \in Values :
        /\ views[c].excl > 0
        /\ Record("write")
        /\ self' = WithCell(self, c, [Cell(self, c) EXCEPT !.value = v])
        /\ written' = TRUE
        /\ outcome' = "ok"
        /\ seen' = -1
        /\ UNCHANGED views

\* a Ref goes out of scope
drop ==
    \E c \in CellNames :
        /\ views[c].shared > 0
        /\ Record("drop")
        /\ self' = WithCell(self, c, Released(Cell(self, c)))
        /\ views' = [views EXCEPT ![c].shared = @ - 1]
        /\ outcome' = "ok"
        /\ seen' = -1
        /\ UNCHANGED written

\* a RefMut goes out of scope
drop_mut ==
    \E c \in CellNames :
        /\ views[c].excl > 0
        /\ Record("drop_mut")
        /\ self' = WithCell(self, c, ReleasedMut(Cell(self, c)))
        /\ views' = [views EXCEPT ![c].excl = @ - 1]
        /\ outcome' = "ok"
        /\ seen' = -1
        /\ UNCHANGED written

\* std::mem::forget(view): the view is gone, the cell stays borrowed
forget ==
    \E c \in CellNames, m \in {"shared", "excl"} :
        /\ views[c][m] > 0
        /\ Record("forget")
        /\ views' = [views EXCEPT ![c][m] = @ - 1]
        /\ outcome' = "ok"
        /\ seen' = -1
        /\ UNCHANGED <<self, written>>

Next ==
    \/ current
    \/ next
    \/ switch
    \/ write
    \/ drop
    \/ drop_mut
    \/ forget

Spec == Init /\ [][Next]_vars

\* switch() called only between ticks, when neither cell is borrowed
switch_quiet ==
    /\ \A c \in CellNames : Cell(self, c).readers + Cell(self, c).writers = 0
    /\ switch

NextQuiet ==
    \/ current
    \/ next
    \/ switch_quiet
    \/ write
    \/ drop
    \/ drop_mut
    \/ forget

SpecQuiet == Init /\ [][NextQuiet]_vars

----------------------------------------------------------------------------
TypeOK ==
    /\ self.switched \in BOOLEAN
    /\ \A c \in CellNames :
        /\ Cell(self, c).value \in Values
        /\ Cell(self, c).readers \in 0 .. MaxShared
        /\ Cell(self, c).writers \in 0 .. 1
        /\ views[c].shared \in 0 .. Cell(self, c).readers
        /\ views[c].excl \in 0 .. Cell(self, c).writers
    /\ outcome \in {"ok", "BorrowConflict"}
    /\ seen \in Values \cup {-1}

----------------------------------------------------------------------------
\* What the accessors expose in a buffer value

CurrentValue(buf) == Cell(buf, CurrentCell(buf.switched)).value

NextValue(buf) == Cell(buf, NextCell(buf.switched)).value

Outstanding(cell) == cell.readers + cell.writers

\* C1: role isolation. After switch() the current cell holds exactly the
\* value the next cell held just before the switch, and a successful
\* current() reads the value of the current cell; so current() called right
\* after switch() reads what the writes through next() left there.
C1_RoleIsolation ==
    /\ op = "switch" => CurrentValue(self) = NextValue(pre.self)
    /\ (op = "current" /\ outcome = "ok") => seen = CurrentValue(self)
    /\ (op = "current" /\ outcome = "ok" /\ pre.op = "switch")
          => seen = NextValue(pre2.self)

C1_Witness ==
    /\ op = "current" /\ outcome = "ok" /\ pre.op = "switch"
    /\ pre2.written
    /\ seen = NextValue(pre2.self)
    /\ seen # CurrentValue(pre2.self)

\* C2: independent slot access. current() succeeds whenever the current cell
\* has no exclusive borrow, and next() succeeds whenever the next cell has no
\* borrow at all, whatever is outstanding on the other cell.
C2_IndependentSlots ==
    /\ (op = "current"
          /\ Cell(pre.self, CurrentCell(pre.self.switched)).writers = 0)
          => outcome = "ok"
    /\ (op = "next"
          /\ Outstanding(Cell(pre.self, NextCell(pre.self.switched))) = 0)
          => outcome = "ok"

C2_Witness ==
    /\ op = "current" /\ outcome = "ok"
    /\ pre.views[NextCell(pre.self.switched)].excl = 1
    /\ views[CurrentCell(self.switched)].shared = 2

\* C3: no implicit copy. Only switch() changes the value current() exposes:
\* every other operation, a write through a next() view included, leaves it
\* as it was.
C3_NoImplicitCopy ==
    op # "switch" => CurrentValue(self) = CurrentValue(pre.self)

C3_Witness ==
    /\ op = "write"
    /\ NextValue(self) # NextValue(pre.self)
    /\ CurrentValue(self) = CurrentValue(pre.self)
    /\ views[CurrentCell(self.switched)].shared > 0

\* C4: double switch is the identity. After two switch() calls in a row the
\* buffer (flag, both cells) is what it was before them, and current() and
\* next() select the same cells.
C4_DoubleSwitch ==
    (op = "switch" /\ pre.op = "switch") =>
        /\ self = pre2.self
        /\ CurrentCell(self.switched) = CurrentCell(pre2.self.switched)
        /\ NextCell(self.switched) = NextCell(pre2.self.switched)
        /\ self.switched # pre.self.switched

C4_Witness ==
    /\ op = "switch" /\ pre.op = "switch"
    /\ CurrentValue(self) # NextValue(self)
    /\ CurrentValue(pre.self) = NextValue(self)

\* C5: per-slot access rule. Each cell has either shared borrows only or one
\* exclusive borrow and no shared one; the live views obey the same rule.
C5_AccessRule ==
    \A c \in CellNames :
        /\ Cell(self, c).writers <= 1
        /\ Cell(self, c).writers = 1 => Cell(self, c).readers = 0
        /\ views[c].excl <= 1
        /\ views[c].excl = 1 => views[c].shared = 0

C5_Witness ==
    /\ op = "current" /\ outcome = "ok"
    /\ \E c \in CellNames : Cell(self, c).readers = 2
    /\ \E c \in CellNames : Cell(self, c).writers = 1

\* C6: next() called while an exclusive borrow of the next cell is
\* outstanding raises BorrowConflict and returns no second view.
C6_ExclusiveConflict ==
    (op = "next" /\ Cell(pre.self, NextCell(pre.self.switched)).writers > 0)
        => /\ outcome = "BorrowConflict"
           /\ self = pre.self
           /\ views = pre.views

C6_Witness ==
    /\ op = "next" /\ outcome = "BorrowConflict"
    /\ views[NextCell(self.switched)].excl = 1

\* C7: a shared view requested (by current()) into a cell on which an
\* exclusive borrow is outstanding raises BorrowConflict.
C7_SharedConflict ==
    (op = "current"
       /\ Cell(pre.self, CurrentCell(pre.self.switched)).writers > 0)
        => /\ outcome = "BorrowConflict"
           /\ self = pre.self
           /\ views = pre.views

C7_Witness ==
    /\ op = "current" /\ outcome = "BorrowConflict"
    /\ Cell(self, CurrentCell(self.switched)).writers = 1

\* C8, as stated: switch() can be called while a view obtained from
\* current() or next() is still held.
C8_SwitchWithLiveView ==
    (\E c \in CellNames : Live(c) > 0) => ENABLED switch

\* C8, amended: switch() runs only when no view is alive (&mut self); a
\* borrow left by a leaked view stays on the physical cell it was taken on,
\* whatever role that cell plays after the switch.
C8_StaleBorrow ==
    op = "switch" =>
        /\ \A c \in CellNames : pre.views[c].shared + pre.views[c].excl = 0
        /\ \A c \in CellNames :
              /\ Cell(self, c).readers = Cell(pre.self, c).readers
              /\ Cell(self, c).writers = Cell(pre.self, c).writers

C8_Witness ==
    /\ op = "switch"
    /\ Cell(self, CurrentCell(self.switched)).writers = 1
    /\ Cell(pre.self, NextCell(pre.self.switched)).writers = 1

\* C9: new() and switch() never fail; the only error is BorrowConflict, from
\* a current() on a cell with an exclusive borrow or a next() on a borrowed
\* cell.
C9_FailuresAtAccessors ==
    /\ op \in {"new", "switch"} => outcome = "ok"
    /\ outcome = "BorrowConflict" =>
          \/ /\ op = "current"
             /\ Cell(pre.self, CurrentCell(pre.self.switched)).writers > 0
          \/ /\ op = "next"
             /\ Outstanding(Cell(pre.self, NextCell(pre.self.switched))) > 0

C9_Witness ==
    /\ op = "switch" /\ outcome = "ok"
    /\ \E c \in CellNames : Cell(self, c).writers = 1
    /\ \E c \in CellNames : Cell(self, c).readers > 0

\* C10: release re-enables access. Dropping the exclusive view leaves its cell
\* unborrowed, the next() that follows succeeds, and with nothing borrowed
\* every accessor call succeeds.
C10_ReleaseReenables ==
    /\ op = "drop_mut" =>
          \E c \in CellNames :
              /\ pre.views[c].excl = 1
              /\ Outstanding(Cell(self, c)) = 0
    /\ (op = "next" /\ pre.op = "drop_mut") => outcome = "ok"
    /\ (op \in {"current", "next"}
          /\ \A c \in CellNames : Outstanding(Cell(pre.self, c)) = 0)
          => outcome = "ok"

C10_Witness ==
    /\ op = "next" /\ outcome = "ok" /\ pre.op = "drop_mut"
    /\ views[CurrentCell(self.switched)].shared > 0
    /\ pre2.views[NextCell(self.switched)].excl = 1

\* C11: construction. Right after new(c, n) the flag is false, nothing is
\* borrowed, the first cell holds c and the second n; current() then reads c
\* and next() exposes n.
C11_Construction ==
    /\ op = "new" =>
          /\ self.switched = FALSE
          /\ views = NoViews
          /\ \A c \in CellNames : Outstanding(Cell(self, c)) = 0
          /\ self.first.value = args[1] /\ CurrentValue(self) = args[1]
          /\ self.second.value = args[2] /\ NextValue(self) = args[2]
    /\ (op = "current" /\ pre.op = "new")
          => outcome = "ok" /\ seen = pre.args[1]
    /\ (op = "next" /\ pre.op = "new")
          => outcome = "ok" /\ NextValue(self) = pre.args[2]

C11_Witness ==
    /\ op = "current" /\ pre.op = "new" /\ outcome = "ok"
    /\ seen = pre.args[1]
    /\ pre.args[1] # pre.args[2]

\* C12: multiple shared views. current() succeeds while shared views of the
\* current cell are outstanding, and adds one more shared view on that cell.
C12_MultipleShared ==
    (op = "current"
       /\ Cell(pre.self, CurrentCell(pre.self.switched)).readers > 0)
        => LET c == CurrentCell(pre.self.switched) IN
           /\ outcome = "ok"
           /\ Cell(self, c).readers = Cell(pre.self, c).readers + 1
           /\ views[c].shared = pre.views[c].shared + 1

C12_Witness ==
    /\ op = "current" /\ outcome = "ok"
    /\ pre.views[CurrentCell(self.switched)].shared = 1
    /\ views[CurrentCell(self.switched)].shared = 2

\* C13: role mapping. current() and next() select two different cells that
\* together are both cells, by the flag alone: flag false, first is current
\* and second is next; flag true, the reverse. The views the accessors hand
\* out are on the cells so selected.
C13_RoleMapping ==
    /\ CurrentCell(self.switched) # NextCell(self.switched)
    /\ {CurrentCell(self.switched), NextCell(self.switched)} = CellNames
    /\ ~self.switched =>
          CurrentCell(self.switched) = "first" /\ NextCell(self.switched) = "second"
    /\ self.switched =>
          CurrentCell(self.switched) = "second" /\ NextCell(self.switched) = "first"
    /\ (op = "current" /\ outcome = "ok") =>
          LET c == IF pre.self.switched THEN "second" ELSE "first" IN
          views[c].shared = pre.views[c].shared + 1
    /\ (op = "next" /\ outcome = "ok") =>
          LET c == IF pre.self.switched THEN "first" ELSE "second" IN
          views[c].excl = pre.views[c].excl + 1

C13_Witness ==
    /\ self.switched
    /\ op = "next" /\ outcome = "ok"
    /\ views["first"].excl = 1
    /\ views["second"].shared > 0

\* C14: frame of switch(). switch() flips the flag and leaves both cells
\* (values and borrow records) and the live views as they were; no other
\* operation changes the flag.
C14_SwitchFrame ==
    /\ op = "switch" =>
          /\ self.switched # pre.self.switched
          /\ self.first = pre.self.first
          /\ self.second = pre.self.second
          /\ views = pre.views
    /\ op \in {"current", "next", "write", "drop", "drop_mut", "forget"}
          => self.switched = pre.self.switched

C14_Witness ==
    /\ op = "switch"
    /\ self.first.value # self.second.value
    /\ Outstanding(self.first) > 0
    /\ Outstanding(self.second) > 0

\* C15: old current becomes next, unreset. Right after switch() the next
\* cell holds the value the current cell held just before it, and the next()
\* that follows exposes that value.
C15_OldCurrentIsNext ==
    /\ op = "switch" => NextValue(self) = CurrentValue(pre.self)
    /\ (op = "next" /\ outcome = "ok" /\ pre.op = "switch")
          => NextValue(self) = CurrentValue(pre2.self)

C15_Witness ==
    /\ op = "next" /\ outcome = "ok" /\ pre.op = "switch"
    /\ pre2.written
    /\ NextValue(self) = CurrentValue(pre2.self)
    /\ NextValue(self) # NextValue(pre2.self)
    /\ NextValue(self) # 0

C17_ErrorLeavesState ==
    /\ outcome = "BorrowConflict" =>
          /\ self = pre.self
          /\ views = pre.views
          /\ written = pre.written
    /\ (op = "next" /\ pre.op = "drop_mut"
          /\ pre2.op = "next" /\ pre2.outcome = "BorrowConflict")
          => outcome = "ok"

C17_Witness ==
    /\ op = "next" /\ outcome = "ok"
    /\ pre.op = "drop_mut"
    /\ pre2.op = "next" /\ pre2.outcome = "BorrowConflict"
    /\ pre2.views[NextCell(self.switched)].excl = 1

====
